---- MODULE Spec2Model ----
(***************************************************************************)
(* A model of the feor path tracer: ray/body intersection and the scene's  *)
(* nearest-hit scan (geometry.rs, scene.rs), the material responses        *)
(* (materials.rs, main.rs), the recursive integrator get_ray_colour and    *)
(* the render loop (main.rs).                                              *)
(*                                                                         *)
(* Fpr (f64) is modelled as fixed point: an integer n stands for n / One.  *)
(* Products and quotients round towards minus infinity, square roots       *)
(* round down.                                                             *)
(***************************************************************************)
EXTENDS Integers, Sequences, FiniteSets, TLC

VARIABLES
    \* Scene::get_hit, one query
    ray, bodies, tmin, tmax, scanned, closest, hit, scanpc,
    \* main: the render loop and the image
    img, writes, loop_i, loop_j, renderpc,
    \* the render scheduler: workers, the shared framebuffer and its guard
    fb, writers, wrow, wcol, wpc, wpixel, guard, schedpc,
    \* Material::response, one call
    mat, inray, inhit, resp, branches, matpc,
    \* get_ray_colour, one call from main and the calls nested in it
    world, primary, depth0, stack, colpc, retval, hitQueries, responseCalls,
    \* one path of bounces: the ray followed and what happened to it
    pathray, tag, splits, nbounces, lastKind, lastEntries, pathpc

sceneVars == <<ray, bodies, tmin, tmax, scanned, closest, hit, scanpc>>
renderVars == <<img, writes, loop_i, loop_j, renderpc>>
schedVars == <<fb, writers, wrow, wcol, wpc, wpixel, guard, schedpc>>
matVars == <<mat, inray, inhit, resp, branches, matpc>>
colourVars == <<world, primary, depth0, stack, colpc, retval, hitQueries, responseCalls>>
pathVars == <<pathray, tag, splits, nbounces, lastKind, lastEntries, pathpc>>
vars == <<sceneVars, renderVars, schedVars, matVars, colourVars, pathVars>>

\* what each part of the program leaves alone
notScene == <<renderVars, schedVars, matVars, colourVars, pathVars>>
notRender == <<sceneVars, schedVars, matVars, colourVars, pathVars>>
notSched == <<sceneVars, renderVars, matVars, colourVars, pathVars>>
notMat == <<sceneVars, renderVars, schedVars, colourVars, pathVars>>
notColour == <<sceneVars, renderVars, schedVars, matVars, pathVars>>
notPath == <<sceneVars, renderVars, schedVars, matVars, colourVars>>

-----------------------------------------------------------------------------
(* Bounds of the model *)

\* the longest body list of a scene query
MaxBodies == 3

\* the largest depth get_ray_colour is first called with (MAX_DEPTH of main)
MaxDepth == 3

\* the image is IMAGE_WIDTH x IMAGE_HEIGHT pixels, each of PIXEL_SAMPLES samples
IMAGE_WIDTH == 2
IMAGE_HEIGHT == 2
PIXEL_SAMPLES == 2

\* the number N of workers of the render scheduler
THREADS == 2

\* the longest path of bounces followed from a primary ray
MaxBounces == 3

-----------------------------------------------------------------------------
(* Fpr arithmetic *)

\* type Fpr = f64: the value 1.0
One == 100

\* Option<T>
None == <<>>
Some(x) == <<x>>
unwrap_or(o, d) == IF o = None THEN d ELSE o[1]

\* Fpr::INFINITY: above every finite value the model computes
INFINITY == 100000000

\* 0.0001, the default lower end of a window: the smallest positive Fpr
DEFAULT_TMIN == 1

\* 0.0001, Plane's parallel-ray threshold: the smallest positive Fpr
PARALLEL_EPS == 1

Abs(a) == IF a < 0 THEN -a ELSE a

\* floor(a / b), b /= 0
FloorDiv(a, b) == IF b > 0 THEN a \div b ELSE (-a) \div (-b)

\* a * b
Mul(a, b) == FloorDiv(a * b, One)

\* a / b
Div(a, b) == FloorDiv(a * One, b)

\* a.powi(2)
powi2(a) == Mul(a, a)

RECURSIVE ISqrtIn(_, _, _)
ISqrtIn(n, lo, hi) ==
    IF lo >= hi THEN lo
    ELSE LET mid == (lo + hi + 1) \div 2
         IN  IF mid * mid <= n THEN ISqrtIn(n, mid, hi) ELSE ISqrtIn(n, lo, mid - 1)

\* a.sqrt(), a >= 0
sqrt(a) == ISqrtIn(a * One, 0, 40000)

-----------------------------------------------------------------------------
(* Vector3 *)

\* Vector3::new with whole coordinates
V(x, y, z) == <<x * One, y * One, z * One>>

VAdd(u, v) == <<u[1] + v[1], u[2] + v[2], u[3] + v[3]>>
VSub(u, v) == <<u[1] - v[1], u[2] - v[2], u[3] - v[3]>>
VScale(s, v) == <<Mul(s, v[1]), Mul(s, v[2]), Mul(s, v[3])>>
VNeg(v) == <<-v[1], -v[2], -v[3]>>
dot(u, v) == FloorDiv(u[1] * v[1] + u[2] * v[2] + u[3] * v[3], One)
cross(u, v) == <<FloorDiv(u[2] * v[3] - u[3] * v[2], One),
                 FloorDiv(u[3] * v[1] - u[1] * v[3], One),
                 FloorDiv(u[1] * v[2] - u[2] * v[1], One)>>
norm(v) == sqrt(dot(v, v))
normalize(v) == LET n == norm(v) IN <<Div(v[1], n), Div(v[2], n), Div(v[3], n)>>

\* Ray::new and Ray::at
Ray_new(origin, direction) == [origin |-> origin, direction |-> direction]
Ray_at(r, t) == VAdd(r.origin, VScale(t, r.direction))

-----------------------------------------------------------------------------
(* geometry.rs: bodies *)

Sphere_new(centre, radius, material) ==
    [kind |-> "Sphere", centre |-> centre, radius |-> radius, material |-> material]

Plane_new(origin, x, y, extents, material) ==
    [kind |-> "Plane", origin |-> origin, x |-> x, y |-> y, extents |-> extents,
     material |-> material, normal |-> cross(x, y)]

Hit(t, position, normal, material) ==
    [t |-> t, position |-> position, normal |-> normal, material |-> material]

\* the window test of both bodies: t < tmin || t > tmax
OutsideStrict(t, lo, hi) == t <= lo \/ t >= hi
Outside(t, lo, hi) == t < lo \/ t > hi

\* the second root's window test of Sphere::get_hit
OutsideNoUpper(t, lo, hi) == t < lo
OutsideOther(t, lo, hi) == t < lo \/ t > hi

Sphere_get_hit(self, r, tmin_opt, tmax_opt) ==
    LET oc == VSub(r.origin, self.centre)
        a == dot(r.direction, r.direction)
        half_b == dot(oc, r.direction)
        c == dot(oc, oc) - powi2(self.radius)
        discriminant == powi2(half_b) - Mul(a, c)
    IN  IF discriminant < 0 THEN None
        ELSE
        LET lo == unwrap_or(tmin_opt, DEFAULT_TMIN)
            hi == unwrap_or(tmax_opt, INFINITY)
            dsqrt == sqrt(discriminant)
            t1 == Div(-half_b - dsqrt, a)
            t2 == Div(-half_b + dsqrt, a)
            found(t) == LET position == Ray_at(r, t)
                        IN  Some(Hit(t, position,
                                     normalize(VSub(position, self.centre)),
                                     self.material))
        IN  IF Outside(t1, lo, hi)
            THEN IF OutsideOther(t2, lo, hi) THEN None ELSE found(t2)
            ELSE found(t1)

Plane_get_hit(self, r, tmin_opt, tmax_opt) ==
    LET ln == dot(self.normal, r.direction)
    IN  IF Abs(ln) < PARALLEL_EPS THEN None
        ELSE
        LET t == Div(dot(VSub(self.origin, r.origin), self.normal), ln)
            lo == unwrap_or(tmin_opt, DEFAULT_TMIN)
            hi == unwrap_or(tmax_opt, INFINITY)
        IN  IF Outside(t, lo, hi) THEN None
            ELSE
            LET p_intersect == Ray_at(r, t)
                inplane == VSub(p_intersect, self.origin)
                x == dot(inplane, self.x)
                y == dot(inplane, self.y)
            IN  IF 0 < x /\ x < self.extents[1] /\ 0 < y /\ y < self.extents[2]
                THEN Some(Hit(t, p_intersect, self.normal, self.material))
                ELSE None

\* RenderedBody::get_hit, dispatched on the body's type
get_hit(body, r, tmin_opt, tmax_opt) ==
    IF body.kind = "Sphere" THEN Sphere_get_hit(body, r, tmin_opt, tmax_opt)
    ELSE Plane_get_hit(body, r, tmin_opt, tmax_opt)

-----------------------------------------------------------------------------
(* scene.rs: Scene::get_hit *)

\* the state of the scan before its first iteration
ScanStart(tmax_opt) == [closest |-> unwrap_or(tmax_opt, INFINITY), hit |-> None]

\* one iteration of the loop over the bodies
ScanBodyNoShrink(acc, body, r, tmin_opt) ==
    LET h == get_hit(body, r, tmin_opt, Some(acc.closest))
    IN  IF h # None THEN [closest |-> acc.closest, hit |-> h] ELSE acc
ScanBody(acc, body, r, tmin_opt) ==
    LET h == get_hit(body, r, tmin_opt, Some(acc.closest))
    IN  IF h # None THEN [closest |-> h[1].t, hit |-> h] ELSE acc

RECURSIVE ScanFrom(_, _, _, _, _)
ScanFrom(acc, bs, i, r, tmin_opt) ==
    IF i > Len(bs) THEN acc
    ELSE ScanFrom(ScanBody(acc, bs[i], r, tmin_opt), bs, i + 1, r, tmin_opt)

\* the whole query, as the integrator calls it
Scene_get_hit(bs, r, tmin_opt, tmax_opt) ==
    ScanFrom(ScanStart(tmax_opt), bs, 1, r, tmin_opt).hit

-----------------------------------------------------------------------------
(* The parts of the program that a specification does not run stay as they   *)
(* are before they start.                                                    *)

SceneIdle ==
    /\ ray = None /\ bodies = <<>> /\ tmin = None /\ tmax = None
    /\ scanned = 0 /\ closest = 0 /\ hit = None /\ scanpc = "idle"

RenderIdle ==
    /\ img = <<>> /\ writes = <<>> /\ loop_i = 0 /\ loop_j = 0 /\ renderpc = "idle"

SchedIdle ==
    /\ fb = <<>> /\ writers = <<>> /\ wrow = <<>> /\ wcol = <<>> /\ wpc = <<>>
    /\ wpixel = <<>> /\ guard = None /\ schedpc = "idle"

MatIdle ==
    /\ mat = None /\ inray = None /\ inhit = None /\ resp = <<>>
    /\ branches = <<>> /\ matpc = "idle"

ColourIdle ==
    /\ world = <<>> /\ primary = None /\ depth0 = 0 /\ stack = <<>> /\ colpc = "idle"
    /\ retval = None /\ hitQueries = 0 /\ responseCalls = 0

PathIdle ==
    /\ pathray = None /\ tag = None /\ splits = 0 /\ nbounces = 0
    /\ lastKind = None /\ lastEntries = 0 /\ pathpc = "idle"

-----------------------------------------------------------------------------
(* The inputs of a scene query *)

SphA == Sphere_new(V(0, 0, -3), One, "glass")
SphC == Sphere_new(V(0, 0, -3), One, "metal")
SphB == Sphere_new(V(0, 0, -5), One, "diffuse_blue")
PlP == Plane_new(V(-1, -1, -2), V(1, 0, 0), V(0, 1, 0), <<2 * One, 2 * One>>, "diffuse_red")
PlQ == Plane_new(V(-1, -1, -4), V(1, 0, 0), V(0, 1, 0), <<2 * One, 2 * One>>, "diffuse_green")
BodySet == {SphA, SphC, SphB, PlP, PlQ}

RECURSIVE SeqsUpTo(_, _)
SeqsUpTo(S, n) ==
    IF n = 0 THEN {<<>>}
    ELSE LET shorter == SeqsUpTo(S, n - 1)
         IN  shorter \cup {Append(q, x) : q \in {p \in shorter : Len(p) = n - 1}, x \in S}

QueryRays == {Ray_new(V(0, 0, 0), V(0, 0, -1)),
              Ray_new(V(0, 0, 0), V(0, 0, -2)),
              Ray_new(V(0, 0, -3), V(0, 0, -1)),
              Ray_new(V(0, 0, 0), V(0, 1, -1))}

TMins == {None, Some(0), Some(3 * One)}
TMaxs == {None, Some(2 * One), Some(4 * One)}

\* the window the bodies test against
WinLo == unwrap_or(tmin, DEFAULT_TMIN)
WinHi == unwrap_or(tmax, INFINITY)

InitScene ==
    /\ ray \in QueryRays
    /\ bodies \in SeqsUpTo(BodySet, MaxBodies)
    /\ tmin \in TMins
    /\ tmax \in TMaxs
    /\ unwrap_or(tmin, DEFAULT_TMIN) < unwrap_or(tmax, INFINITY)
    /\ scanned = 0
    /\ closest = ScanStart(tmax).closest
    /\ hit = ScanStart(tmax).hit
    /\ scanpc = "scan"
    /\ RenderIdle /\ SchedIdle /\ MatIdle /\ ColourIdle /\ PathIdle

\* for hittable in &self.bodies { ... }: one iteration
ScanStep ==
    /\ scanpc = "scan"
    /\ scanned < Len(bodies)
    /\ LET acc == ScanBody([closest |-> closest, hit |-> hit],
                           bodies[scanned + 1], ray, tmin)
       IN  /\ closest' = acc.closest
           /\ hit' = acc.hit
    /\ scanned' = scanned + 1
    /\ UNCHANGED <<ray, bodies, tmin, tmax, scanpc>>
    /\ UNCHANGED notScene

\* the loop is over: return hit
ScanReturn ==
    /\ scanpc = "scan"
    /\ scanned = Len(bodies)
    /\ scanpc' = "done"
    /\ UNCHANGED <<ray, bodies, tmin, tmax, scanned, closest, hit>>
    /\ UNCHANGED notScene

NextScene == ScanStep \/ ScanReturn

SpecScene == InitScene /\ [][NextScene]_vars

-----------------------------------------------------------------------------
(* Claims about Scene::get_hit *)

Intersections(body, r) ==
    IF body.kind = "Sphere"
    THEN LET oc == VSub(r.origin, body.centre)
             a == dot(r.direction, r.direction)
             half_b == dot(oc, r.direction)
             c == dot(oc, oc) - powi2(body.radius)
             discriminant == powi2(half_b) - Mul(a, c)
         IN  IF discriminant < 0 THEN {}
             ELSE {Div(-half_b - sqrt(discriminant), a), Div(-half_b + sqrt(discriminant), a)}
    ELSE LET h == Plane_get_hit(body, r, Some(-INFINITY), Some(INFINITY))
         IN  IF h = None THEN {} ELSE {h[1].t}

InWindow == UNION {{t \in Intersections(bodies[i], ray) : WinLo <= t /\ t <= WinHi}
                   : i \in 1..Len(bodies)}

SetMin(S) == CHOOSE m \in S : \A x \in S : m <= x

Tied == {i \in 1..Len(bodies) :
            /\ get_hit(bodies[i], ray, tmin, tmax) # None
            /\ get_hit(bodies[i], ray, tmin, tmax)[1].t = hit[1].t}

\* C3 as stated: on a tie at the nearest t the hit of the first tied body of the
\* list is returned.
C3_FirstTiedWins ==
    (scanpc = "done" /\ hit # None) =>
        hit[1] = get_hit(bodies[SetMin(Tied)], ray, tmin, tmax)[1]

SetMax(S) == CHOOSE m \in S : \A x \in S : m >= x

\* C3 amended: on a tie at the nearest t the hit of the last tied body of the
\* list is returned (material, normal and position are that body's).
C3_LastTiedWins ==
    (scanpc = "done" /\ hit # None) =>
        hit[1] = get_hit(bodies[SetMax(Tied)], ray, tmin, tmax)[1]

\* C3 witness: two bodies with different materials tie at the nearest t.
C3_Witness ==
    /\ scanpc = "done" /\ hit # None
    /\ \E i, j \in Tied : i < j /\ bodies[i].material # bodies[j].material

-----------------------------------------------------------------------------
(* main.rs: the render loop *)

Colour_new(r, g, b) == <<r, g, b>>
Colour_zeros == <<0, 0, 0>>

Min(a, b) == IF a < b THEN a ELSE b

\* (c.sqrt() * 255.999).round(), cast to u8 by px!
Channel(c) == Min(255, FloorDiv(2 * Mul(sqrt(c), 25599) + One, 2 * One))

\* PixelColour::from(vec).into()
PixelColour_from(vec) == <<Channel(vec[1]), Channel(vec[2]), Channel(vec[3])>>

\* what get_ray_colour can return for one sample: black, or a background colour
SampleColours == {Colour_zeros, Colour_new(One, One, One)}

Pixels == (0..(IMAGE_WIDTH - 1)) \X (0..(IMAGE_HEIGHT - 1))

RECURSIVE SumColours(_, _)
SumColours(samples, n) ==
    IF n = 0 THEN Colour_zeros ELSE VAdd(SumColours(samples, n - 1), samples[n])

\* colour / PIXEL_SAMPLES as Fpr
Average(colour) == <<FloorDiv(colour[1], PIXEL_SAMPLES),
                     FloorDiv(colour[2], PIXEL_SAMPLES),
                     FloorDiv(colour[3], PIXEL_SAMPLES)>>

\* for i in 0..IMAGE_WIDTH: column i was the last one of its row
LastColumnEarly(col) == col + 2 >= IMAGE_WIDTH
LastColumn(col) == col + 1 >= IMAGE_WIDTH

\* let mut img = Image::new(IMAGE_WIDTH, IMAGE_HEIGHT)
InitRender ==
    /\ img = [p \in Pixels |-> None]
    /\ writes = [p \in Pixels |-> 0]
    /\ loop_i = 0
    /\ loop_j = 0
    /\ renderpc = "render"
    /\ SceneIdle /\ SchedIdle /\ MatIdle /\ ColourIdle /\ PathIdle

\* the body of the two loops for one pixel: the samples are summed, averaged,
\* converted and stored with img.set_pixel(i, j, ...)
RenderPixel ==
    /\ renderpc = "render"
    /\ loop_j < IMAGE_HEIGHT
    /\ \E samples \in [1..PIXEL_SAMPLES -> SampleColours] :
          LET colour == SumColours(samples, PIXEL_SAMPLES)
          IN  img' = [img EXCEPT ![<<loop_i, loop_j>>] = Some(PixelColour_from(Average(colour)))]
    /\ writes' = [writes EXCEPT ![<<loop_i, loop_j>>] = @ + 1]
    /\ IF LastColumn(loop_i) THEN loop_i' = 0 /\ loop_j' = loop_j + 1
       ELSE loop_i' = loop_i + 1 /\ loop_j' = loop_j
    /\ UNCHANGED renderpc
    /\ UNCHANGED notRender

\* img.save("img.bmp"): the image goes to the output, which writes it or fails
Save ==
    /\ renderpc = "render"
    /\ loop_j >= IMAGE_HEIGHT
    /\ renderpc' \in {"saved", "save_failed"}
    /\ UNCHANGED <<img, writes, loop_i, loop_j>>
    /\ UNCHANGED notRender

NextRender == RenderPixel \/ Save

SpecRender == InitRender /\ [][NextRender]_vars

\* the image has been handed to img.save
HandedOff == renderpc \in {"saved", "save_failed"}

\* C4: no pixel is ever written twice, and once the image has been handed to
\* img.save every pixel of the image has been written exactly once (so no
\* pixel is unwritten and none is written after the handoff).
C4_WrittenOnceBeforeSave ==
    /\ \A p \in Pixels : writes[p] <= 1 /\ (writes[p] = 1 <=> img[p] # None)
    /\ HandedOff => \A p \in Pixels : writes[p] = 1

\* C4 witness: the image was handed off with white and black pixels in it.
C4_Witness ==
    /\ HandedOff
    /\ \E p, q \in Pixels : img[p] = Some(<<255, 255, 255>>) /\ img[q] = Some(<<0, 0, 0>>)

-----------------------------------------------------------------------------
(* The render scheduler: THREADS workers fill one shared framebuffer.  Worker *)
(* w renders the rows with row % THREADS = w; a pixel is written under the   *)
(* framebuffer's guard; the workers are joined before the image is saved.    *)

Workers == 0..(THREADS - 1)

\* row % N == worker_id
OwnsUpTo(w, row) == row % THREADS <= w
Owns(w, row) == row % THREADS = w

InitSched ==
    /\ fb = [p \in Pixels |-> None]
    /\ writers = [p \in Pixels |-> {}]
    /\ wrow = [w \in Workers |-> 0]
    /\ wcol = [w \in Workers |-> 0]
    /\ wpc = [w \in Workers |-> "loop"]
    /\ wpixel = [w \in Workers |-> None]
    /\ guard = None
    /\ schedpc = "running"
    /\ SceneIdle /\ RenderIdle /\ MatIdle /\ ColourIdle /\ PathIdle

\* a row of another worker: go to the next row
WorkerSkip(w) ==
    /\ wpc[w] = "loop" /\ wrow[w] < IMAGE_HEIGHT /\ ~Owns(w, wrow[w])
    /\ wrow' = [wrow EXCEPT ![w] = @ + 1]
    /\ UNCHANGED <<fb, writers, wcol, wpc, wpixel, guard, schedpc>>
    /\ UNCHANGED notSched

\* a pixel of an own row: sample it, average, convert
WorkerSample(w) ==
    /\ wpc[w] = "loop" /\ wrow[w] < IMAGE_HEIGHT /\ Owns(w, wrow[w])
    /\ \E c \in SampleColours :
          wpixel' = [wpixel EXCEPT ![w] = Some(PixelColour_from(c))]
    /\ wpc' = [wpc EXCEPT ![w] = "lock"]
    /\ UNCHANGED <<fb, writers, wrow, wcol, guard, schedpc>>
    /\ UNCHANGED notSched

\* take the framebuffer's guard
WorkerLock(w) ==
    /\ wpc[w] = "lock" /\ guard = None
    /\ guard' = Some(w)
    /\ wpc' = [wpc EXCEPT ![w] = "write"]
    /\ UNCHANGED <<fb, writers, wrow, wcol, wpixel, schedpc>>
    /\ UNCHANGED notSched

\* write the pixel, release the guard, go to the next pixel
WorkerWrite(w) ==
    /\ wpc[w] = "write" /\ guard = Some(w)
    /\ fb' = [fb EXCEPT ![<<wcol[w], wrow[w]>>] = wpixel[w]]
    /\ writers' = [writers EXCEPT ![<<wcol[w], wrow[w]>>] = @ \cup {w}]
    /\ guard' = None
    /\ IF LastColumn(wcol[w])
       THEN wcol' = [wcol EXCEPT ![w] = 0] /\ wrow' = [wrow EXCEPT ![w] = @ + 1]
       ELSE wcol' = [wcol EXCEPT ![w] = @ + 1] /\ UNCHANGED wrow
    /\ wpc' = [wpc EXCEPT ![w] = "loop"]
    /\ wpixel' = [wpixel EXCEPT ![w] = None]
    /\ UNCHANGED schedpc
    /\ UNCHANGED notSched

\* no row is left: the worker ends
WorkerExit(w) ==
    /\ wpc[w] = "loop" /\ wrow[w] >= IMAGE_HEIGHT
    /\ wpc' = [wpc EXCEPT ![w] = "done"]
    /\ UNCHANGED <<fb, writers, wrow, wcol, wpixel, guard, schedpc>>
    /\ UNCHANGED notSched

\* all workers are joined
Join ==
    /\ schedpc = "running" /\ \A w \in Workers : wpc[w] = "done"
    /\ schedpc' = "joined"
    /\ UNCHANGED <<fb, writers, wrow, wcol, wpc, wpixel, guard>>
    /\ UNCHANGED notSched

\* the framebuffer goes to the output
SchedSave ==
    /\ schedpc = "joined"
    /\ schedpc' = "saved"
    /\ UNCHANGED <<fb, writers, wrow, wcol, wpc, wpixel, guard>>
    /\ UNCHANGED notSched

NextSched ==
    \/ \E w \in Workers : WorkerSkip(w)
    \/ \E w \in Workers : WorkerSample(w)
    \/ \E w \in Workers : WorkerLock(w)
    \/ \E w \in Workers : WorkerWrite(w)
    \/ \E w \in Workers : WorkerExit(w)
    \/ Join
    \/ SchedSave

SpecSched == InitSched /\ [][NextSched]_vars

\* C5: every row belongs to exactly one worker, and in every interleaving a
\* pixel is written by no worker other than the one its row belongs to, so no
\* two workers ever write the same pixel.
C5_DisjointRows ==
    /\ \A row \in 0..(IMAGE_HEIGHT - 1) :
          Cardinality({w \in Workers : Owns(w, row)}) = 1
    /\ \A p \in Pixels : /\ Cardinality(writers[p]) <= 1
                         /\ \A w \in writers[p] : p[2] % THREADS = w

\* C5 witness: the render is over and two workers have each written pixels.
C5_Witness ==
    /\ schedpc = "saved"
    /\ \E p, q \in Pixels : writers[p] # {} /\ writers[q] # {} /\ writers[p] # writers[q]

-----------------------------------------------------------------------------
(* materials.rs and main.rs: the materials *)

\* Chroma
Chromas == {"Red", "Green", "Blue", "White"}

\* Chroma::from(c), c = 0, 1, 2 (here 1, 2, 3)
Chroma_from(c) == <<"Red", "Green", "Blue">>[c]

\* Ray::new of the crate whose rays carry a chroma: a White ray
Ray_new_white(origin, direction) ==
    [origin |-> origin, direction |-> direction, chroma |-> "White"]

\* Ray::new_chroma
Ray_new_chroma(origin, direction, chroma) ==
    [origin |-> origin, direction |-> direction, chroma |-> chroma]

Metal_new(colour) == [kind |-> "Metal", colour |-> colour]
MetalMain_new(colour) == [kind |-> "MetalMain", colour |-> colour]
DispersiveDielectric_new(colour, refractive_indicies) ==
    [kind |-> "DispersiveDielectric", colour |-> colour,
     refractive_indicies |-> refractive_indicies]

\* raynorm - 2.0 * raynorm.dot(&hit.normal) * hit.normal
Reflected(raynorm, normal) ==
    VSub(raynorm, VScale(2 * dot(raynorm, normal), normal))

\* materials.rs, Metal::response: the entries of the returned Vec
Metal_response(self, r, h) ==
    LET raynorm == normalize(r.direction)
        raydotnorm == dot(raynorm, h.normal)
    IN  IF raydotnorm < 0
        THEN LET reflected == VSub(raynorm, VScale(2 * raydotnorm, h.normal))
             IN  << <<self.colour, Ray_new_white(h.position, reflected)>> >>
        ELSE <<>>

\* main.rs, Metal::response: the pair (Colour, Option<Ray>)
MetalMain_response(self, r, h) ==
    LET raynorm == normalize(r.direction)
        reflected == Reflected(raynorm, h.normal)
    IN  <<self.colour, Some(Ray_new(h.position, reflected))>>

\* x.recip()
recip(x) == Div(One, x)

\* x.powi(5)
powi5(x) == Mul(Mul(powi2(powi2(x)), x), One)

\* DispersiveDielectric::reflectance
reflectance(cos_theta, refrac_ratio) ==
    LET r02 == powi2(Div(One - refrac_ratio, One + refrac_ratio))
    IN  r02 + Mul(One - r02, powi5(One - cos_theta))

norm_squared(v) == dot(v, v)

\* the match on ray.chroma: the channels to evaluate (0, 1, 2 are 1, 2, 3 here)
ChannelsOf(chroma) ==
    CASE chroma = "Red" -> <<1>>
      [] chroma = "Green" -> <<2>>
      [] chroma = "Blue" -> <<3>>
      [] chroma = "White" -> <<1, 2, 3>>

\* let mut colour = Colour::zeros(); colour[c] = self.colour[c];
OneChannelAll(colour, c) == colour
OneChannel(colour, c) == [k \in 1..3 |-> IF k = c THEN colour[c] ELSE 0]

\* the chroma given to the continuation ray of channel c
EntryChromaWhite(r, c) == "White"
EntryChroma(r, c) == Chroma_from(c)

\* materials.rs, DispersiveDielectric::response; randoms[k] is the value that
\* rand::random() gives for the k-th channel evaluated.  The result pairs the
\* entries of the Vec with the branch each one took.
DispersiveDielectric_response(self, r, h, randoms) ==
    LET raynorm == normalize(r.direction)
        raydotnorm0 == dot(raynorm, h.normal)
        inside == raydotnorm0 > 0
        hnormal == IF inside THEN VNeg(h.normal) ELSE h.normal
        raydotnorm == IF inside THEN -raydotnorm0 ELSE raydotnorm0
        refrac_ratios == IF inside THEN self.refractive_indicies
                         ELSE <<recip(self.refractive_indicies[1]),
                                recip(self.refractive_indicies[2]),
                                recip(self.refractive_indicies[3])>>
        cos_theta == Min(-raydotnorm, One)
        sin_theta == sqrt(One - powi2(cos_theta))
        chromas == ChannelsOf(r.chroma)
        entry(k) ==
            LET c == chromas[k]
                chroma == EntryChroma(r, c)
                colour == OneChannel(self.colour, c)
                cannot_refract == Mul(refrac_ratios[c], sin_theta) > One
            IN  IF cannot_refract \/ reflectance(cos_theta, refrac_ratios[c]) > randoms[k]
                THEN LET reflected == Reflected(normalize(r.direction), h.normal)
                     IN  [pair |-> <<colour, Ray_new_chroma(h.position, reflected, chroma)>>,
                          branch |-> "reflect"]
                ELSE LET out_tang == VScale(refrac_ratios[c],
                                            VAdd(raynorm, VScale(cos_theta, hnormal)))
                         out_norm == VScale(-sqrt(Abs(One - norm_squared(out_tang))), hnormal)
                         refracted == VAdd(out_tang, out_norm)
                     IN  [pair |-> <<colour, Ray_new_chroma(h.position, refracted, chroma)>>,
                          branch |-> "refract"]
    IN  [k \in 1..Len(chromas) |-> entry(k)]

-----------------------------------------------------------------------------
(* One call of a material's response *)

MetalColour == Colour_new(80, 80, 80)
GlassColour == Colour_new(90, 80, 90)
MagentaColour == Colour_new(One, 0, One)
Indicies == <<140, 150, 160>>

Materials == {Metal_new(MetalColour), MetalMain_new(MetalColour),
              DispersiveDielectric_new(GlassColour, Indicies),
              DispersiveDielectric_new(MagentaColour, Indicies)}

\* directions of incoming rays (not normalized) and unit normals of hits
InDirections == {V(0, -1, 0), V(3, -4, 0), V(1, 0, 0), V(0, 2, 0), V(3, 4, 0), V(5, -1, 0)}
HitNormals == {V(0, 1, 0), V(0, -1, 0), V(1, 0, 0)}

\* values of rand::random::<Fpr>(), in [0, 1)
Randoms == {0, 50}

InitMat ==
    /\ mat \in Materials
    /\ \E d \in InDirections, ch \in Chromas :
          /\ inray = Ray_new_chroma(V(0, 2, 0), d, ch)
          /\ (mat.kind # "DispersiveDielectric" => ch = "White")
    /\ \E n \in HitNormals : inhit = Hit(One, V(0, 0, 0), n, mat)
    /\ resp = <<>>
    /\ branches = <<>>
    /\ matpc = "incoming"
    /\ SceneIdle /\ RenderIdle /\ SchedIdle /\ ColourIdle /\ PathIdle

\* hit.material.response(ray, &hit) on a Metal of materials.rs
RespondMetal ==
    /\ matpc = "incoming" /\ mat.kind = "Metal"
    /\ resp' = Metal_response(mat, inray, inhit)
    /\ matpc' = "responded"
    /\ UNCHANGED <<mat, inray, inhit, branches>>
    /\ UNCHANGED notMat

\* hit.material.response(ray, &hit) on a Metal of main.rs
RespondMetalMain ==
    /\ matpc = "incoming" /\ mat.kind = "MetalMain"
    /\ resp' = MetalMain_response(mat, inray, inhit)
    /\ matpc' = "responded"
    /\ UNCHANGED <<mat, inray, inhit, branches>>
    /\ UNCHANGED notMat

\* hit.material.response(ray, &hit) on a DispersiveDielectric
RespondDispersive ==
    /\ matpc = "incoming" /\ mat.kind = "DispersiveDielectric"
    /\ \E randoms \in [1..3 -> Randoms] :
          LET out == DispersiveDielectric_response(mat, inray, inhit, randoms)
          IN  /\ resp' = [k \in 1..Len(out) |-> out[k].pair]
              /\ branches' = [k \in 1..Len(out) |-> out[k].branch]
    /\ matpc' = "responded"
    /\ UNCHANGED <<mat, inray, inhit>>
    /\ UNCHANGED notMat

NextMat == RespondMetal \/ RespondMetalMain \/ RespondDispersive

SpecMat == InitMat /\ [][NextMat]_vars

-----------------------------------------------------------------------------
(* main.rs: the integrator get_ray_colour and what it calls *)

DiffuseMain_new(colour) == [kind |-> "DiffuseMain", colour |-> colour]
DielectricMain_new(colour, refractive_index) ==
    [kind |-> "DielectricMain", colour |-> colour, refractive_index |-> refractive_index]

\* an implementor of the trait Material whose response holds no ray
NoScatter_new(colour) == [kind |-> "NoScatter", colour |-> colour]

\* values random_in_sphere() can return
RandomInSphere == {<<0, 0, 0>>, <<50, 0, 0>>, <<-50, 0, -50>>}

\* main.rs, Diffuse::response; random is the value of random_in_sphere()
DiffuseMain_response(self, r, h, random) ==
    LET target == VAdd(VAdd(h.position, h.normal), random)
    IN  <<self.colour, Some(Ray_new(h.position, VSub(target, h.position)))>>

\* main.rs, Dielectric::response; random is the value of rand::random()
DielectricMain_response(self, r, h, random) ==
    LET raynorm == normalize(r.direction)
        raydotnorm0 == dot(raynorm, h.normal)
        inside == raydotnorm0 > 0
        hnormal == IF inside THEN VNeg(h.normal) ELSE h.normal
        raydotnorm == IF inside THEN -raydotnorm0 ELSE raydotnorm0
        refrac_ratio == IF inside THEN self.refractive_index
                        ELSE recip(self.refractive_index)
        cos_theta == Min(-raydotnorm, One)
        sin_theta == sqrt(One - powi2(cos_theta))
        cannot_refract == Mul(refrac_ratio, sin_theta) > One
    IN  IF cannot_refract \/ reflectance(cos_theta, refrac_ratio) > random
        THEN <<self.colour, Some(Ray_new(h.position, Reflected(raynorm, h.normal)))>>
        ELSE LET out_tang == VScale(refrac_ratio, VAdd(raynorm, VScale(cos_theta, hnormal)))
                 out_norm == VScale(-sqrt(Abs(One - norm_squared(out_tang))), hnormal)
             IN  <<self.colour, Some(Ray_new(h.position, VAdd(out_tang, out_norm)))>>

\* hit.material.response(ray, &hit): every pair (Colour, Option<Ray>) the
\* material can return, over the values its random draws can take
Responses(material, r, h) ==
    CASE material.kind = "DiffuseMain" ->
            {DiffuseMain_response(material, r, h, v) : v \in RandomInSphere}
      [] material.kind = "MetalMain" -> {MetalMain_response(material, r, h)}
      [] material.kind = "DielectricMain" ->
            {DielectricMain_response(material, r, h, x) : x \in Randoms}
      [] material.kind = "NoScatter" -> {<<material.colour, None>>}

\* a.component_mul(&b)
component_mul_first(a, b) == <<Mul(a[1], b[1]), Mul(a[1], b[2]), Mul(a[1], b[3])>>
component_mul(a, b) == <<Mul(a[1], b[1]), Mul(a[2], b[2]), Mul(a[3], b[3])>>

background_colour_raw(r) ==
    LET t == Mul(One \div 2, r.direction[2] + One)
    IN  VAdd(VScale(One - t, Colour_new(One, One, One)),
             VScale(t, Colour_new(50, 70, One)))
background_colour(r) ==
    LET dirnorm == normalize(r.direction)
        t == Mul(One \div 2, dirnorm[2] + One)
    IN  VAdd(VScale(One - t, Colour_new(One, One, One)),
             VScale(t, Colour_new(50, 70, One)))

\* if depth <= 0
DepthExhaustedBelowZero(depth) == depth < 0
DepthExhausted(depth) == depth <= 0

\* ViewPort::new and Camera::new with main's configuration
ViewPort_new(aspect_ratio, height) ==
    [aspect_ratio |-> aspect_ratio, width |-> Mul(aspect_ratio, height), height |-> height]

Camera_new(origin, focal_length, viewport, horizontal, vertical) ==
    LET h == VScale(viewport.width, normalize(horizontal))
        v == VScale(viewport.height, normalize(vertical))
    IN  [origin |-> origin, focal_length |-> focal_length, viewport |-> viewport,
         horizontal |-> h, vertical |-> v,
         image_origin |-> VSub(VSub(VSub(origin, VScale(One \div 2, h)),
                                    VScale(One \div 2, v)),
                               <<0, 0, focal_length>>)]

Camera_get_ray(self, u, v) ==
    Ray_new(self.origin,
            VSub(VAdd(VAdd(self.image_origin, VScale(u, self.horizontal)),
                      VScale(v, self.vertical)),
                 self.origin))

camera == Camera_new(V(0, 0, 0), One, ViewPort_new(Div(16 * One, 9 * One), 2 * One),
                     V(1, 0, 0), V(0, 1, 0))

\* the materials and spheres of main, and two more spheres
glass == DielectricMain_new(GlassColour, 150)
diffuse_red == DiffuseMain_new(Colour_new(One, 0, 0))
diffuse_blue == DiffuseMain_new(Colour_new(0, 0, One))
metal == MetalMain_new(MetalColour)
centre_sph == Sphere_new(<<0, 0, -100>>, 50, glass)
right_sph == Sphere_new(<<100, 0, -100>>, 20, diffuse_blue)
left_sph == Sphere_new(<<-100, 0, -100>>, 40, diffuse_red)
metal_sph == Sphere_new(<<0, 0, -100>>, 50, metal)
dark_sph == Sphere_new(<<0, 100, -100>>, 40, NoScatter_new(Colour_zeros))

Worlds == {<<>>,
           <<centre_sph, right_sph, left_sph>>,
           <<metal_sph, left_sph, dark_sph>>}

\* the primary rays: camera.get_ray(u, v) for some u, v in [0, 1]
PrimaryRays == {Camera_get_ray(camera, uv[1], uv[2]) :
                    uv \in {<<50, 50>>, <<22, 50>>, <<50, 100>>, <<0, 0>>, <<78, 50>>}}

Frame(r, depth) == [ray |-> r, depth |-> depth, attenuation |-> None]

Top == stack[Len(stack)]

\* get_ray_colour(&ray, &world, depth) is called from main
InitColour ==
    /\ world \in Worlds
    /\ primary \in PrimaryRays
    /\ depth0 \in 0..MaxDepth
    /\ stack = <<Frame(primary, depth0)>>
    /\ colpc = "call"
    /\ retval = None
    /\ hitQueries = 0
    /\ responseCalls = 0
    /\ SceneIdle /\ RenderIdle /\ SchedIdle /\ MatIdle /\ PathIdle

\* if depth <= 0 { return Colour::zeros(); }
ColourDepthExhausted ==
    /\ colpc = "call"
    /\ DepthExhausted(Top.depth)
    /\ retval' = Colour_zeros
    /\ colpc' = "return"
    /\ UNCHANGED <<world, primary, depth0, stack, hitQueries, responseCalls>>
    /\ UNCHANGED notColour

\* world.get_hit(ray, None, None) is None: background_colour(ray)
ColourMiss ==
    /\ colpc = "call"
    /\ ~DepthExhausted(Top.depth)
    /\ Scene_get_hit(world, Top.ray, None, None) = None
    /\ hitQueries' = hitQueries + 1
    /\ retval' = background_colour(Top.ray)
    /\ colpc' = "return"
    /\ UNCHANGED <<world, primary, depth0, stack, responseCalls>>
    /\ UNCHANGED notColour

\* a hit whose material scatters: get_ray_colour(&scattered, world, depth-1)
ColourScatter ==
    /\ colpc = "call"
    /\ ~DepthExhausted(Top.depth)
    /\ Len(stack) < MaxDepth + 3
    /\ LET h == Scene_get_hit(world, Top.ray, None, None)
       IN  /\ h # None
           /\ \E response \in Responses(h[1].material, Top.ray, h[1]) :
                 /\ response[2] # None
                 /\ stack' = Append([stack EXCEPT ![Len(stack)].attenuation = Some(response[1])],
                                    Frame(response[2][1], Top.depth - 1))
    /\ hitQueries' = hitQueries + 1
    /\ responseCalls' = responseCalls + 1
    /\ UNCHANGED <<world, primary, depth0, colpc, retval>>
    /\ UNCHANGED notColour

\* a hit whose material scatters nothing: Colour::zeros()
ColourAbsorb ==
    /\ colpc = "call"
    /\ ~DepthExhausted(Top.depth)
    /\ LET h == Scene_get_hit(world, Top.ray, None, None)
       IN  /\ h # None
           /\ \E response \in Responses(h[1].material, Top.ray, h[1]) :
                 response[2] = None
    /\ hitQueries' = hitQueries + 1
    /\ responseCalls' = responseCalls + 1
    /\ retval' = Colour_zeros
    /\ colpc' = "return"
    /\ UNCHANGED <<world, primary, depth0, stack>>
    /\ UNCHANGED notColour

\* a call returns: to main, or to the call that made it, which multiplies the
\* colour by its attenuation and returns in turn
ColourReturn ==
    /\ colpc = "return"
    /\ stack' = SubSeq(stack, 1, Len(stack) - 1)
    /\ IF Len(stack) = 1
       THEN colpc' = "done" /\ UNCHANGED retval
       ELSE /\ retval' = component_mul(retval, stack[Len(stack) - 1].attenuation[1])
            /\ UNCHANGED colpc
    /\ UNCHANGED <<world, primary, depth0, hitQueries, responseCalls>>
    /\ UNCHANGED notColour

NextColour ==
    ColourDepthExhausted \/ ColourMiss \/ ColourScatter \/ ColourAbsorb \/ ColourReturn

SpecColour == InitColour /\ [][NextColour]_vars

-----------------------------------------------------------------------------
(* Claims about get_ray_colour *)

\* C6: a call of get_ray_colour with depth 0, from main or nested, returns
\* black at once: it queries no hit, calls no material and makes no call; and
\* get_ray_colour(ray, scene, 0) called from main has returned black when done.
C6_DepthZeroIsBlack ==
    /\ [][(colpc = "call" /\ Top.depth = 0) =>
            /\ retval' = Colour_zeros
            /\ colpc' = "return"
            /\ stack' = stack
            /\ hitQueries' = hitQueries
            /\ responseCalls' = responseCalls]_vars
    /\ []((depth0 = 0 /\ colpc = "done") =>
            /\ retval = Colour_zeros
            /\ hitQueries = 0
            /\ responseCalls = 0)

\* C6 witness: a call with depth 0 has returned for a ray that hits a body of
\* the scene.
C6_Witness ==
    /\ colpc = "done" /\ depth0 = 0 /\ retval = Colour_zeros
    /\ Scene_get_hit(world, primary, None, None) # None

\* the background gradient of a direction: (1-t)*(1,1,1) + t*(0.5,0.7,1.0)
\* with t = 0.5*(y + 1), y the vertical component of the normalized direction
Gradient(direction) ==
    LET y == normalize(direction)[2]
        t == Mul(50, y + One)
    IN  <<(One - t) + Mul(t, 50), (One - t) + Mul(t, 70), (One - t) + t>>

\* C9: with no body in the scene Scene::get_hit finds nothing, so
\* get_ray_colour with depth >= 1 makes no nested call, calls no material and
\* returns the background gradient of the primary ray's direction.
C9_EmptySceneIsBackground ==
    world = <<>> =>
        /\ Len(stack) <= 1
        /\ responseCalls = 0
        /\ colpc \in {"call", "return", "done"} =>
              Scene_get_hit(world, primary, None, None) = None
        /\ (colpc = "done" /\ depth0 >= 1) =>
              /\ retval = Gradient(primary.direction)
              /\ hitQueries = 1

\* C9 witness: the call for a pixel of an empty scene has returned a colour
\* that is not black.
C9_Witness ==
    /\ colpc = "done" /\ world = <<>> /\ depth0 >= 1 /\ primary # None
    /\ retval # Colour_zeros /\ primary.direction[2] # 0

\* every call on the stack has a depth one less than its caller's, none below 0
DepthsDescend ==
    \A k \in 1..Len(stack) : /\ stack[k].depth = depth0 - (k - 1)
                             /\ stack[k].depth >= 0

\* the number of steps the calls can still take, at most: a call that has not
\* yet returned can nest depth more calls, and every call on the stack returns
StepsLeft ==
    Len(stack) + (IF colpc = "call" THEN 2 * Top.depth + 2 ELSE 0)

\* a call that is under way can always take its next step
CanProceed ==
    /\ colpc = "return" => Len(stack) >= 1
    /\ colpc = "call" =>
          \/ DepthExhausted(Top.depth)
          \/ Scene_get_hit(world, Top.ray, None, None) = None
          \/ LET h == Scene_get_hit(world, Top.ray, None, None)[1]
             IN  /\ Responses(h.material, Top.ray, h) # {}
                 /\ Len(stack) < MaxDepth + 3

\* C10: get_ray_colour(ray, scene, D) terminates: every nested call has its
\* caller's depth less one, never below 0, so at most D + 1 calls are nested
\* (the one with depth 0 returns black); a call under way is never stuck and
\* every step brings the return to main nearer by at least one of the at most
\* 2D + 3 steps.
C10_Terminates ==
    /\ [](DepthsDescend /\ Len(stack) <= depth0 + 1)
    /\ [](CanProceed /\ StepsLeft >= 0 /\ StepsLeft <= 2 * depth0 + 3)
    /\ [][StepsLeft' < StepsLeft]_vars

\* C10 witness: the nested calls reached depth 0 from the largest depth, and
\* the innermost one has returned black.
C10_Witness ==
    /\ colpc = "return" /\ depth0 = MaxDepth /\ Len(stack) = depth0 + 1
    /\ Top.depth = 0 /\ retval = Colour_zeros

-----------------------------------------------------------------------------
(* Claims about the materials *)

\* the entries a Metal returned: the Vec of materials.rs as it is, the pair of
\* main.rs as one entry when it holds a ray and none otherwise
MetalEntries ==
    IF mat.kind = "Metal" THEN [k \in 1..Len(resp) |-> <<resp[k][1], resp[k][2].direction>>]
    ELSE IF resp[2] = None THEN <<>> ELSE << <<resp[1], resp[2][1].direction>> >>

\* what C7 says of the Metal that responded
MetalAsClaimed ==
    LET d == normalize(inray.direction)
        n == inhit.normal
    IN  IF dot(d, n) >= 0
        THEN MetalEntries = <<>>
        ELSE MetalEntries = << <<mat.colour, VSub(d, VScale(2 * dot(d, n), n))>> >>

\* C7: Metal::response returns zero entries whenever the normalized incoming
\* direction d and the hit normal n have d.n >= 0, and exactly one entry, the
\* mirror reflection d - 2(d.n)n with the metal's colour, whenever d.n < 0.
C7_MetalAbsorbsFromBehind ==
    (matpc = "responded" /\ mat.kind \in {"Metal", "MetalMain"}) => MetalAsClaimed

\* C7 holds of the Metal of materials.rs.
C7_HoldsInMaterialsRs ==
    (matpc = "responded" /\ mat.kind = "Metal") => MetalAsClaimed

\* the colour channel a chroma tag stands for
ChannelOfChroma(chroma) ==
    CASE chroma = "Red" -> 1 [] chroma = "Green" -> 2 [] chroma = "Blue" -> 3
      [] chroma = "White" -> 0

NonZeroChannels(colour) == {c \in 1..3 : colour[c] # 0}

\* C8 as stated: a White ray yields 3 entries, each with exactly one non-zero
\* colour channel and the chroma tag of that channel; a Red, Green or Blue ray
\* yields 1 entry with the same chroma and zero in the other two channels.
C8_ExactlyOneChannel ==
    (matpc = "responded" /\ mat.kind = "DispersiveDielectric") =>
        IF inray.chroma = "White"
        THEN /\ Len(resp) = 3
             /\ \A k \in 1..3 :
                   NonZeroChannels(resp[k][1]) = {ChannelOfChroma(resp[k][2].chroma)}
        ELSE /\ Len(resp) = 1
             /\ resp[1][2].chroma = inray.chroma
             /\ NonZeroChannels(resp[1][1]) \subseteq {ChannelOfChroma(inray.chroma)}

\* C8 amended: a White ray yields 3 entries, one tagged Red, Green and Blue
\* each, whose attenuation is the material's colour in the channel of its tag
\* and zero in the other two (so at most one channel is non-zero); a Red, Green
\* or Blue ray yields 1 entry with the same chroma and zero in the other two
\* channels.  This holds whichever of reflection and refraction each channel
\* took.
C8_SplitArity ==
    (matpc = "responded" /\ mat.kind = "DispersiveDielectric") =>
        /\ Len(branches) = Len(resp)
        /\ IF inray.chroma = "White"
           THEN /\ Len(resp) = 3
                /\ {resp[k][2].chroma : k \in 1..3} = {"Red", "Green", "Blue"}
                /\ \A k \in 1..3 :
                      LET c == ChannelOfChroma(resp[k][2].chroma)
                      IN  /\ NonZeroChannels(resp[k][1]) \subseteq {c}
                          /\ resp[k][1][c] = mat.colour[c]
           ELSE /\ Len(resp) = 1
                /\ resp[1][2].chroma = inray.chroma
                /\ NonZeroChannels(resp[1][1]) \subseteq {ChannelOfChroma(inray.chroma)}
                /\ resp[1][1][ChannelOfChroma(inray.chroma)]
                      = mat.colour[ChannelOfChroma(inray.chroma)]

\* C8 witness: a White ray was split and its channels took both branches.
C8_Witness ==
    /\ matpc = "responded" /\ mat.kind = "DispersiveDielectric"
    /\ inray.chroma = "White" /\ Len(resp) = 3
    /\ \E k, l \in 1..3 : branches[k] = "reflect" /\ branches[l] = "refract"

\* a Red, Green or Blue ray met a DispersiveDielectric and was refracted
C8_WitnessTagged ==
    /\ matpc = "responded" /\ mat.kind = "DispersiveDielectric"
    /\ inray.chroma # "White" /\ branches = <<"refract">>

-----------------------------------------------------------------------------
(* Claim about the hit branch of get_ray_colour *)

\* the pairs (attenuation, scattered ray) of a response of main.rs: a response
\* (Colour, Option<Ray>) holds one pair, or none when it holds no ray
PairsOf(response) ==
    IF response[2] = None THEN <<>>
    ELSE <<[attenuation |-> response[1], scattered |-> response[2][1]]>>

\* the sum over terms of attenuation multiplied component-wise by colour
RECURSIVE SumOfTerms(_)
SumOfTerms(terms) ==
    IF terms = <<>> THEN <<0, 0, 0>>
    ELSE LET a == terms[1].attenuation
             c == terms[1].colour
             rest == SumOfTerms(Tail(terms))
         IN  <<Mul(a[1], c[1]) + rest[1], Mul(a[2], c[2]) + rest[2], Mul(a[3], c[3]) + rest[3]>>

\* the call on top of the stack has depth >= 1 and its ray hits a body
OnHit ==
    /\ colpc = "call" /\ Top.depth >= 1
    /\ Scene_get_hit(world, Top.ray, None, None) # None

TopResponses ==
    LET h == Scene_get_hit(world, Top.ray, None, None)[1]
    IN  Responses(h.material, Top.ray, h)

\* C11: on a hit with depth >= 1 get_ray_colour returns the sum, over the
\* pairs of the material's response, of attenuation times (component-wise) the
\* value of get_ray_colour(scattered, scene, depth-1): for every pair a nested
\* call is made with the pair's ray and depth-1 and its value is multiplied by
\* the pair's attenuation; a response with no ray makes the call return black,
\* which is the empty sum, neither the background colour nor an error.
C11_HitSumsResponsePairs ==
    /\ [][OnHit =>
            \E response \in TopResponses :
               LET pairs == PairsOf(response)
               IN  IF pairs = <<>>
                   THEN /\ colpc' = "return"
                        /\ stack' = stack
                        /\ retval' = SumOfTerms(<<>>)
                        /\ retval' = Colour_zeros
                        /\ retval' # background_colour(Top.ray)
                   ELSE /\ colpc' = "call"
                        /\ Len(stack') = Len(stack) + Len(pairs)
                        /\ stack'[Len(stack)].attenuation = Some(pairs[1].attenuation)
                        /\ stack'[Len(stack')].ray = pairs[1].scattered
                        /\ stack'[Len(stack')].depth = Top.depth - 1]_vars
    /\ [][(colpc = "return" /\ Len(stack) > 1) =>
            /\ stack[Len(stack) - 1].attenuation # None
            /\ retval' = SumOfTerms(<<[attenuation |-> stack[Len(stack) - 1].attenuation[1],
                                       colour |-> retval]>>)
            /\ colpc' = "return"]_vars
    /\ [](/\ colpc \in {"call", "return", "done"}
          /\ colpc \in {"return", "done"} => retval \in Seq(Int) /\ Len(retval) = 3
          /\ (colpc = "done" /\ depth0 >= 1
              /\ Scene_get_hit(world, primary, None, None) # None
              /\ \A response \in Responses(Scene_get_hit(world, primary, None, None)[1].material,
                                           primary,
                                           Scene_get_hit(world, primary, None, None)[1]) :
                    PairsOf(response) = <<>>)
             => retval = Colour_zeros /\ retval # background_colour(primary))

\* C11 witness: a nested call returned a colour that is not black to a caller
\* whose attenuation is not grey, and the caller has multiplied it.
C11_Witness ==
    /\ colpc = "return" /\ Len(stack) >= 1 /\ depth0 >= 2
    /\ Top.attenuation # None
    /\ Top.attenuation[1][1] # Top.attenuation[1][2]
    /\ retval # Colour_zeros

\* C11 witness of the empty response: the primary ray hit a body whose
\* material returned no ray and the call returned black.
C11_WitnessAbsorbed ==
    /\ colpc = "done" /\ depth0 >= 1
    /\ Scene_get_hit(world, primary, None, None) # None
    /\ Scene_get_hit(world, primary, None, None)[1].material.kind = "NoScatter"
    /\ retval = Colour_zeros

-----------------------------------------------------------------------------
(* A path of bounces: the responses of materials.rs along one path *)

Diffuse_new(colour) == [kind |-> "Diffuse", colour |-> colour]
Dielectric_new(colour, refractive_index) ==
    [kind |-> "Dielectric", colour |-> colour, refractive_index |-> refractive_index]

\* materials.rs, Diffuse::response; random is the value of random_in_sphere()
Diffuse_response(self, r, h, random) ==
    LET target == VAdd(VAdd(h.position, h.normal), random)
    IN  << <<self.colour, Ray_new_white(h.position, VSub(target, h.position))>> >>

\* materials.rs, Dielectric::response; random is the value of rand::random()
Dielectric_response(self, r, h, random) ==
    LET raynorm == normalize(r.direction)
        raydotnorm0 == dot(raynorm, h.normal)
        inside == raydotnorm0 > 0
        hnormal == IF inside THEN VNeg(h.normal) ELSE h.normal
        raydotnorm == IF inside THEN -raydotnorm0 ELSE raydotnorm0
        refrac_ratio == IF inside THEN self.refractive_index
                        ELSE recip(self.refractive_index)
        cos_theta == Min(-raydotnorm, One)
        sin_theta == sqrt(One - powi2(cos_theta))
        cannot_refract == Mul(refrac_ratio, sin_theta) > One
    IN  IF cannot_refract \/ reflectance(cos_theta, refrac_ratio) > random
        THEN << <<self.colour, Ray_new_white(h.position, Reflected(raynorm, h.normal))>> >>
        ELSE LET out_tang == VScale(refrac_ratio, VAdd(raynorm, VScale(cos_theta, hnormal)))
                 out_norm == VScale(-sqrt(Abs(One - norm_squared(out_tang))), hnormal)
             IN  << <<self.colour, Ray_new_white(h.position, VAdd(out_tang, out_norm))>> >>

\* the materials a path can meet
path_diffuse == Diffuse_new(Colour_new(One, 0, 0))
path_metal == Metal_new(MetalColour)
path_dielectric == Dielectric_new(GlassColour, 150)
path_dispersive == DispersiveDielectric_new(GlassColour, Indicies)

\* the hits of a path: the responses use hit.position only as the origin of
\* the continuation ray
PathHits(material) == {Hit(One, V(0, 0, -1), n, material) : n \in HitNormals}

\* the primary rays: Camera::get_ray makes them with Ray::new
InitPath ==
    /\ \E r \in PrimaryRays : pathray = Ray_new_white(r.origin, r.direction)
    /\ tag = None
    /\ splits = 0
    /\ nbounces = 0
    /\ lastKind = None
    /\ lastEntries = 0
    /\ pathpc = "flying"
    /\ SceneIdle /\ RenderIdle /\ SchedIdle /\ MatIdle /\ ColourIdle

\* the ray met a material that returned entries: the path goes on with the
\* ray of one of them, or ends when there is none
Follow(kind, entries) ==
    /\ nbounces' = nbounces + 1
    /\ lastKind' = kind
    /\ lastEntries' = Len(entries)
    /\ splits' = IF Len(entries) = 3 THEN splits + 1 ELSE splits
    /\ IF entries = <<>>
       THEN pathpc' = "absorbed" /\ UNCHANGED <<pathray, tag>>
       ELSE \E k \in 1..Len(entries) :
               /\ pathray' = entries[k][2]
               /\ tag' = IF tag = None /\ kind = "DispersiveDielectric"
                         THEN Some(entries[k][2].chroma) ELSE tag
               /\ UNCHANGED pathpc
    /\ UNCHANGED notPath

BounceDiffuse ==
    /\ pathpc = "flying" /\ nbounces < MaxBounces
    /\ \E h \in PathHits(path_diffuse), v \in RandomInSphere :
          Follow("Diffuse", Diffuse_response(path_diffuse, pathray, h, v))

BounceMetal ==
    /\ pathpc = "flying" /\ nbounces < MaxBounces
    /\ \E h \in PathHits(path_metal) :
          Follow("Metal", Metal_response(path_metal, pathray, h))

BounceDielectric ==
    /\ pathpc = "flying" /\ nbounces < MaxBounces
    /\ \E h \in PathHits(path_dielectric), x \in Randoms :
          Follow("Dielectric", Dielectric_response(path_dielectric, pathray, h, x))

BounceDispersive ==
    /\ pathpc = "flying" /\ nbounces < MaxBounces
    /\ \E h \in PathHits(path_dispersive), randoms \in [1..3 -> Randoms] :
          LET out == DispersiveDielectric_response(path_dispersive, pathray, h, randoms)
          IN  Follow("DispersiveDielectric", [k \in 1..Len(out) |-> out[k].pair])

NextPath == BounceDiffuse \/ BounceMetal \/ BounceDielectric \/ BounceDispersive

SpecPath == InitPath /\ [][NextPath]_vars

-----------------------------------------------------------------------------
(* Claim about the chroma along a path *)

\* C12: along a path of bounces from a White primary ray a 3-entry split
\* happens at most once: once a DispersiveDielectric has tagged the ray Red,
\* Green or Blue, the ray followed carries that chroma after every later
\* response of a Diffuse, Metal, Dielectric or DispersiveDielectric, and every
\* later DispersiveDielectric hit yields 1 entry.
C12_SplitAtMostOnce ==
    /\ splits <= 1
    /\ (tag # None /\ pathpc = "flying") => pathray.chroma = tag[1]

\* what holds of C12: a ray tagged Red, Green or Blue that meets a
\* DispersiveDielectric yields 1 entry of the same chroma; the ray a Diffuse,
\* Metal or Dielectric returns is White whatever the chroma of the ray it met.
C12_HoldsAcrossDispersiveOnly ==
    /\ [][(pathpc = "flying" /\ pathray.chroma # "White"
           /\ nbounces' = nbounces + 1 /\ lastKind' = "DispersiveDielectric") =>
             /\ lastEntries' = 1
             /\ pathray'.chroma = pathray.chroma]_vars
    /\ [][(nbounces' = nbounces + 1 /\ lastEntries' = 1
           /\ lastKind' \in {"Diffuse", "Metal", "Dielectric"}) =>
             pathray'.chroma = "White"]_vars

\* a tagged ray met a Diffuse and then a DispersiveDielectric, which split it
\* a second time
C12_ResplitReached ==
    /\ splits = 2 /\ tag # None /\ lastKind = "DispersiveDielectric" /\ lastEntries = 3

====
